---- MODULE Spec2Model ----
(***************************************************************************)
(* A model of pytorch.py: the start-up code that loads and splits the      *)
(* dataset, the batch loaders built on CustomDataset, the trainable        *)
(* train_model_tune with its LightningModel, and the tuning driver         *)
(* tune_hyperparameters called by the entry point.                         *)
(*                                                                         *)
(* Python values are records tagged by "kind", so that an int, a str, a    *)
(* dict and None stay different values, as they are for the interpreter.   *)
(*                                                                         *)
(* Three specifications:                                                   *)
(*   Spec / FairSpec  one run of the script, from line 34 to its end;      *)
(*   SpecTrial        train_model_tune called once per trial, the trials   *)
(*                    interleaved, each with a sampled configuration;      *)
(*   SpecLoader       one pass over a DataLoader built on a CustomDataset. *)
(***************************************************************************)
EXTENDS Integers, Sequences, FiniteSets, TLC

(* ------------------------------ bounds --------------------------------- *)

\* cpu counts the start-up code is run with: 1..MaxCpu
MaxCpu == 9
\* rows of data.parquet: SampleSize - 1 + k, k in 0..MaxExtraRows
MaxExtraRows == 2
\* feature columns of data.parquet: 1..MaxFeatures
MaxFeatures == 4
\* trials whose trainable calls are interleaved
NumTrials == 2
\* dataset sizes of a loader pass: 1..MaxS
MaxS == 8
\* batch sizes of a loader pass: 1..MaxB
MaxB == 4

(* ------------------------- program constants --------------------------- *)

\* df.sample(1500)
SampleSize == 1500
\* train_test_split(test_size=0.2), in tenths
TestSizeTenths == 2
\* DataLoader(batch_size=1024)
BatchSize == 1024
\* num_workers = min(8, cpu_count())
MaxWorkers == 8
\* tune_hyperparameters(..., num_samples=18), the entry point's call
MainNumSamples == 18
\* train_model_tune(max_epochs=100), the default: the driver's partial leaves it
DefaultMaxEpochs == 100
\* ModelCheckpoint(save_top_k=5)
SaveTopK == 5
\* ASHAScheduler(reduction_factor=2)
ReductionFactor == 2

(* --------------------------- Python values ----------------------------- *)

NoneVal == [kind |-> "None"]
PyInt(n) == [kind |-> "int", v |-> n]
PyStr(s) == [kind |-> "str", v |-> s]
PyList(s) == [kind |-> "list", items |-> s]
\* a dict of one entry, which is all the script builds outside config
PyDict1(k, val) == [kind |-> "dict", keys |-> <<k>>, vals |-> <<val>>]

RECURSIVE SeqMax(_)
SeqMax(s) ==
    IF Len(s) = 1 THEN s[1]
    ELSE LET m == SeqMax(Tail(s)) IN IF s[1] > m THEN s[1] ELSE m

RECURSIVE SeqMin(_)
SeqMin(s) ==
    IF Len(s) = 1 THEN s[1]
    ELSE LET m == SeqMin(Tail(s)) IN IF s[1] < m THEN s[1] ELSE m

\* max(x): over a list its largest item; over a dict Python iterates the
\* KEYS, so max of a dict of one entry is that entry's key, a str.
PyMax(x) ==
    IF x.kind = "list" THEN PyInt(SeqMax(x.items))
    ELSE IF x.kind = "dict" THEN PyStr(x.keys[1])
    ELSE [kind |-> "raise", exc |-> "TypeError"]

\* min(x): as max.
PyMin(x) ==
    IF x.kind = "list" THEN PyInt(SeqMin(x.items))
    ELSE IF x.kind = "dict" THEN PyStr(x.keys[1])
    ELSE [kind |-> "raise", exc |-> "TypeError"]

\* ceil(a / b) for naturals, b > 0
CeilDiv(a, b) == (a + b - 1) \div b

Min2(a, b) == IF a < b THEN a ELSE b

(* ---------------------------- search space ----------------------------- *)

\* tune.choice(values): a Categorical domain
choice(values) == [kind |-> "Categorical", categories |-> values]

\* tune.grid_search(values) returns the plain dict {"grid_search": values}
grid_search(values) == PyDict1("grid_search", PyList(values))

OptimizerChoices == <<"Adam", "AdamW">>
LossChoices == <<"MAE", "MSE", "SmoothL1Loss">>
ActivationChoices == <<"ReLU", "PReLU", "ELU">>
GridMaxT == <<20, 30, 40>>
GridGracePeriod == <<5, 10, 15>>

\* the dict config of tune_hyperparameters
SearchSpace ==
    [optimizer |-> choice(OptimizerChoices),
     loss_function |-> choice(LossChoices),
     activation |-> choice(ActivationChoices),
     max_t |-> grid_search(GridMaxT),
     grace_period |-> grid_search(GridGracePeriod)]

\* OptunaSearch(metric="loss", mode="min")
OptunaSearch(metric, mode) ==
    [kind |-> "OptunaSearch", metric |-> metric, mode |-> mode]

\* ASHAScheduler.__init__: it asserts max_t > 0, max_t >= grace_period and
\* grace_period > 0; comparing a str with an int raises TypeError.
ASHAScheduler(time_attr, max_t, grace_period, reduction_factor) ==
    IF max_t.kind # "int" \/ grace_period.kind # "int"
    THEN [kind |-> "raise", exc |-> "TypeError"]
    ELSE IF ~(max_t.v > 0 /\ max_t.v >= grace_period.v /\ grace_period.v > 0
              /\ reduction_factor > 1)
    THEN [kind |-> "raise", exc |-> "AssertionError"]
    ELSE [kind |-> "ASHAScheduler", time_attr |-> time_attr, max_t |-> max_t.v,
          grace_period |-> grace_period.v, reduction_factor |-> reduction_factor]

(* ------------------------------- state --------------------------------- *)

VARIABLES
    \* one run of the script
    pc,             \* the line the script is at, "returned" or "raised"
    exc,            \* the exception that ended the run, or "none"
    dataFile,       \* data.parquet, its columns numeric: [exists, rows, hasTarget, features]
    cpuCount,       \* multiprocessing.cpu_count()
    dfRows,         \* len(df)
    split,          \* [train, test]: rows of X_train and X_test
    loaders,        \* [train, test]: each [size, batch_size, shuffle, num_workers]
    numSamples,     \* num_samples inside tune_hyperparameters
    config,         \* the dict config of tune_hyperparameters
    search_algo,
    scheduler,
    tuner,          \* the Tuner, once built
    results,        \* the ResultGrid of tuner.fit(): a set of [trial, loss]
    best_result,    \* results.get_best_result(...)
    \* train_model_tune, one call per trial
    trials,
    \* one pass over a loader
    ld

runVars == <<pc, exc, dataFile, cpuCount, dfRows, split, loaders, numSamples,
             config, search_algo, scheduler, tuner, results, best_result>>
vars == <<pc, exc, dataFile, cpuCount, dfRows, split, loaders, numSamples,
          config, search_algo, scheduler, tuner, results, best_result, trials, ld>>

NoTrials == [t \in 1..NumTrials |-> [status |-> "idle"]]
NoLoader == [phase |-> "idle"]

(* ------------------------- one run of the script ----------------------- *)

InitRun ==
    /\ pc = "L34"
    /\ exc = "none"
    /\ dataFile \in [exists : BOOLEAN,
                     rows : {SampleSize - 1 + k : k \in 0..MaxExtraRows},
                     hasTarget : BOOLEAN,
                     features : 1..MaxFeatures]
    /\ cpuCount \in 1..MaxCpu
    /\ dfRows = 0
    /\ split = [train |-> 0, test |-> 0]
    /\ loaders = NoneVal
    /\ numSamples = 0
    /\ config = NoneVal
    /\ search_algo = NoneVal
    /\ scheduler = NoneVal
    /\ tuner = NoneVal
    /\ results = {}
    /\ best_result = NoneVal

Init ==
    /\ InitRun
    /\ trials = NoTrials
    /\ ld = NoLoader

Raise(e) ==
    /\ pc' = "raised"
    /\ exc' = e

\* line 34-35: df = pd.read_parquet('data.parquet'); a missing file is fatal
ReadParquet ==
    /\ pc = "L34"
    /\ IF dataFile.exists
       THEN /\ pc' = "L36"
            /\ dfRows' = dataFile.rows
            /\ exc' = exc
       ELSE /\ Raise("FileNotFoundError")
            /\ dfRows' = dfRows
    /\ UNCHANGED <<dataFile, cpuCount, split, loaders, numSamples, config,
                   search_algo, scheduler, tuner, results, best_result, trials, ld>>

\* line 36: df = df.sample(1500), without replacement: more rows than the
\* frame has is a ValueError
SampleRows ==
    /\ pc = "L36"
    /\ IF dfRows >= SampleSize
       THEN /\ pc' = "L40"
            /\ dfRows' = SampleSize
            /\ exc' = exc
       ELSE /\ Raise("ValueError")
            /\ dfRows' = dfRows
    /\ UNCHANGED <<dataFile, cpuCount, split, loaders, numSamples, config,
                   search_algo, scheduler, tuner, results, best_result, trials, ld>>

\* lines 39-41: y = df['perf']; X = df.drop(columns=['perf'])
SplitTarget ==
    /\ pc = "L40"
    /\ IF dataFile.hasTarget
       THEN /\ pc' = "L43"
            /\ exc' = exc
       ELSE Raise("KeyError")
    /\ UNCHANGED <<dataFile, cpuCount, dfRows, split, loaders, numSamples, config,
                   search_algo, scheduler, tuner, results, best_result, trials, ld>>

\* train_test_split(test_size=0.2): n_test = ceil(0.2 * n), n_train = n - n_test
train_test_split(n) ==
    LET nTest == CeilDiv(n * TestSizeTenths, 10)
    IN  [train |-> n - nTest, test |-> nTest]

\* lines 43-49
TrainTestSplit ==
    /\ pc = "L43"
    /\ split' = train_test_split(dfRows)
    /\ pc' = "L67"
    /\ UNCHANGED <<exc, dataFile, cpuCount, dfRows, loaders, numSamples, config,
                   search_algo, scheduler, tuner, results, best_result, trials, ld>>

\* line 70
num_workers(cpus) == Min2(MaxWorkers, cpus)

\* lines 67-73: the two datasets and their loaders
BuildLoaders ==
    /\ pc = "L67"
    /\ loaders' = [train |-> [size |-> split.train, batch_size |-> BatchSize,
                              shuffle |-> TRUE, num_workers |-> num_workers(cpuCount)],
                   test |-> [size |-> split.test, batch_size |-> BatchSize,
                             shuffle |-> FALSE, num_workers |-> num_workers(cpuCount)]]
    /\ pc' = "L215"
    /\ UNCHANGED <<exc, dataFile, cpuCount, dfRows, split, numSamples, config,
                   search_algo, scheduler, tuner, results, best_result, trials, ld>>

\* lines 214-220: the entry point calls tune_hyperparameters(num_samples=18),
\* which binds its parameters and builds config (lines 175-182)
CallTuneHyperparameters ==
    /\ pc = "L215"
    /\ numSamples' = MainNumSamples
    /\ config' = SearchSpace
    /\ pc' = "L184"
    /\ UNCHANGED <<exc, dataFile, cpuCount, dfRows, split, loaders,
                   search_algo, scheduler, tuner, results, best_result, trials, ld>>

\* line 184
BuildSearchAlgo ==
    /\ pc = "L184"
    /\ search_algo' = OptunaSearch("loss", "min")
    /\ pc' = "L185"
    /\ UNCHANGED <<exc, dataFile, cpuCount, dfRows, split, loaders, numSamples, config,
                   scheduler, tuner, results, best_result, trials, ld>>

\* the scheduler of lines 185-190, from the dict config
scheduler_of(cfg) ==
    ASHAScheduler("training_iteration", PyMax(cfg.max_t), PyMin(cfg.grace_period),
                  ReductionFactor)

\* lines 185-190: max(config['max_t']) and min(config['grace_period']) are
\* taken over the dicts grid_search returned, and the constructor raises
BuildScheduler ==
    /\ pc = "L185"
    /\ LET s == scheduler_of(config)
       IN IF s.kind = "raise"
          THEN /\ Raise(s.exc)
               /\ scheduler' = scheduler
          ELSE /\ scheduler' = s
               /\ pc' = "L192"
               /\ exc' = exc
    /\ UNCHANGED <<dataFile, cpuCount, dfRows, split, loaders, numSamples, config,
                   search_algo, tuner, results, best_result, trials, ld>>

\* Lines 192-211 (the Tuner, tuner.fit(), get_best_result and the return) are
\* steps no run reaches: BuildScheduler leaves every run at "raised".
Next ==
    \/ ReadParquet
    \/ SampleRows
    \/ SplitTarget
    \/ TrainTestSplit
    \/ BuildLoaders
    \/ CallTuneHyperparameters
    \/ BuildSearchAlgo
    \/ BuildScheduler

Spec == Init /\ [][Next]_vars

\* the script is one sequential process: a step that can be taken is taken
FairSpec == Init /\ [][Next]_vars /\ WF_vars(Next)

(* ------------------ train_model_tune, one call per trial --------------- *)

\* a key none of the lookup tables holds
UnknownKey == "Unknown"

Range(s) == {s[i] : i \in 1..Len(s)}

\* the keys of the dict in get_optimizer (lines 106-109)
Optimizers == {"Adam", "AdamW"}
\* the keys of the dict in get_loss_function (lines 113-117)
LossFunctions == {"MSE", "SmoothL1Loss", "MAE"}
\* the keys of the dict in get_activation (lines 121-125)
Activations == {"ReLU", "PReLU", "ELU"}

\* dict[key]: the entry, or KeyError
Lookup(table, key, what) ==
    IF key \in table THEN [kind |-> what, name |-> key]
    ELSE [kind |-> "raise", exc |-> "KeyError"]

get_optimizer(self) == Lookup(Optimizers, self.optimizer_name, "optimizer")
get_loss_function(self) == Lookup(LossFunctions, self.loss_name, "loss")
get_activation(self) == Lookup(Activations, self.activation, "activation")

\* build_model: nn.Sequential's arguments are evaluated in order, so the
\* first get_activation() that raises ends the construction
build_model(self) ==
    LET hidden_size == self.num_features \div 2
        hidden_size2 == hidden_size \div 2
        a1 == get_activation(self)
        a2 == get_activation(self)
    IN  IF a1.kind = "raise" THEN a1
        ELSE IF a2.kind = "raise" THEN a2
        ELSE [kind |-> "Sequential",
              layers |-> <<[kind |-> "Linear", in |-> self.num_features, out |-> hidden_size],
                           a1, [kind |-> "Dropout"],
                           [kind |-> "Linear", in |-> hidden_size, out |-> hidden_size2],
                           a2, [kind |-> "Dropout"],
                           [kind |-> "Linear", in |-> hidden_size2, out |-> 1]>>]

\* LightningModel.__init__: the names are stored as given, and only the
\* activation is resolved here, inside build_model
LightningModel(num_features, activation, optimizer_name, loss_name) ==
    LET self == [num_features |-> num_features, activation |-> activation,
                 optimizer_name |-> optimizer_name, loss_name |-> loss_name]
        m == build_model(self)
    IN  IF m.kind = "raise" THEN m
        ELSE [kind |-> "LightningModel", num_features |-> num_features,
              activation |-> activation, optimizer_name |-> optimizer_name,
              loss_name |-> loss_name, model |-> m]

\* ModelCheckpoint.__init__ validates its arguments: save_top_k >= -1, and
\* with no monitor there is no quantity to rank by, so save_top_k must be
\* -1 (keep all), 0 (keep none) or 1 (keep the last); anything else raises
\* MisconfigurationException. The call of lines 151-157 passes no monitor.
ModelCheckpoint(dirpath, filename, save_top_k, monitor, every_n_epochs) ==
    IF save_top_k < -1 \/ every_n_epochs < 0
    THEN [kind |-> "raise", exc |-> "MisconfigurationException"]
    ELSE IF monitor = NoneVal /\ save_top_k \notin {-1, 0, 1}
    THEN [kind |-> "raise", exc |-> "MisconfigurationException"]
    ELSE [kind |-> "ModelCheckpoint", dirpath |-> dirpath, filename |-> filename,
          save_top_k |-> save_top_k, monitor |-> monitor,
          every_n_epochs |-> every_n_epochs, kept |-> {}]

\* the configurations a trial may be called with: the values of the search
\* space, and for the three looked-up names a key no table holds
TrialConfigs ==
    [optimizer : Range(OptimizerChoices) \cup {UnknownKey},
     loss_function : Range(LossChoices) \cup {UnknownKey},
     activation : Range(ActivationChoices) \cup {UnknownKey},
     max_t : Range(GridMaxT),
     grace_period : Range(GridGracePeriod)]

ValidConfig(cfg) ==
    /\ cfg.optimizer \in Optimizers
    /\ cfg.loss_function \in LossFunctions
    /\ cfg.activation \in Activations

Trial(cfg) ==
    [status |-> "scheduled", pc |-> "L142", config |-> cfg, exc |-> "none",
     num_features |-> MaxFeatures, max_epochs |-> 0, epochs |-> 0,
     model |-> NoneVal, checkpoint_callback |-> NoneVal]

InitTrial ==
    /\ pc = "idle"
    /\ exc = "none"
    /\ dataFile = NoneVal
    /\ cpuCount = 1
    /\ dfRows = 0
    /\ split = [train |-> 0, test |-> 0]
    /\ loaders = NoneVal
    /\ numSamples = 0
    /\ config = NoneVal
    /\ search_algo = NoneVal
    /\ scheduler = NoneVal
    /\ tuner = NoneVal
    /\ results = {}
    /\ best_result = NoneVal
    /\ trials \in [1..NumTrials -> {Trial(c) : c \in TrialConfigs}]
    /\ ld = NoLoader

\* the trial's worker calls the partial of line 193: train_model_tune(config),
\* max_epochs left at its default
StartTrial(t) ==
    /\ trials[t].status = "scheduled"
    /\ trials' = [trials EXCEPT ![t].status = "running", ![t].pc = "L143",
                                ![t].max_epochs = DefaultMaxEpochs]
    /\ UNCHANGED <<runVars, ld>>

FailTrial(t, e) ==
    trials' = [trials EXCEPT ![t].status = "failed", ![t].pc = "raised", ![t].exc = e]

\* lines 143-148
BuildModel(t) ==
    /\ trials[t].status = "running"
    /\ trials[t].pc = "L143"
    /\ LET c == trials[t].config
           m == LightningModel(trials[t].num_features, c.activation, c.optimizer,
                               c.loss_function)
       IN  IF m.kind = "raise"
           THEN FailTrial(t, m.exc)
           ELSE trials' = [trials EXCEPT ![t].model = m, ![t].pc = "L151"]
    /\ UNCHANGED <<runVars, ld>>

\* the callback of lines 151-157
checkpoint_callback_of(cfg) ==
    ModelCheckpoint("checkpoints", "epoch-{epoch:02d}-val_loss-{val_loss:.2f}",
                    SaveTopK, NoneVal, 1)

\* lines 150-157
BuildCheckpointCallback(t) ==
    /\ trials[t].status = "running"
    /\ trials[t].pc = "L151"
    /\ LET cb == checkpoint_callback_of(trials[t].config)
       IN  IF cb.kind = "raise"
           THEN FailTrial(t, cb.exc)
           ELSE trials' = [trials EXCEPT ![t].checkpoint_callback = cb, ![t].pc = "L159"]
    /\ UNCHANGED <<runVars, ld>>

\* Lines 159-172 (the callbacks list, the Trainer and trainer.fit) are steps
\* no trial reaches: BuildCheckpointCallback leaves every trial at "failed".
NextTrial ==
    \E t \in 1..NumTrials :
        \/ StartTrial(t)
        \/ BuildModel(t)
        \/ BuildCheckpointCallback(t)

SpecTrial == InitTrial /\ [][NextTrial]_vars

(* --------------------- one pass over a DataLoader ---------------------- *)

\* CustomDataset(features, labels): the two arrays, kept as given
CustomDataset(features, labels) == [features |-> features, labels |-> labels]

\* CustomDataset.__len__
dataset_len(self) == Len(self.features)

\* CustomDataset.__getitem__ (idx from 1 here, from 0 in Python)
dataset_getitem(self, idx) == <<self.features[idx], self.labels[idx]>>

\* a DataLoader built without drop_last (lines 72-73 pass none): a batch is
\* yielded while samples are left, so a short last batch is kept
loader_has_next_drop_last(pos, n, batch_size) == pos + batch_size <= n
loader_has_next(pos, n, batch_size) == pos < n

\* the indices of the next batch, for the sequential sampler of
\* test_dataloader (shuffle=False); the sampler of train_dataloader yields the
\* same indices in a random order, which changes no batch size
next_indices(pos, n, batch_size) == (pos + 1)..Min2(pos + batch_size, n)

InitLoader ==
    /\ pc = "idle"
    /\ exc = "none"
    /\ dataFile = NoneVal
    /\ cpuCount = 1
    /\ dfRows = 0
    /\ split = [train |-> 0, test |-> 0]
    /\ loaders = NoneVal
    /\ numSamples = 0
    /\ config = NoneVal
    /\ search_algo = NoneVal
    /\ scheduler = NoneVal
    /\ tuner = NoneVal
    /\ results = {}
    /\ best_result = NoneVal
    /\ trials = NoTrials
    /\ \E S \in 1..MaxS, B \in 1..MaxB :
          ld = [phase |-> "iterating",
                dataset |-> CustomDataset([i \in 1..S |-> i], [i \in 1..S |-> 0 - i]),
                batch_size |-> B,
                pos |-> 0,
                batches |-> <<>>]

\* the loader yields its next batch: the samples __getitem__ returns for the
\* next batch_size indices, or for those that are left
NextBatch ==
    /\ ld.phase = "iterating"
    /\ loader_has_next(ld.pos, dataset_len(ld.dataset), ld.batch_size)
    /\ LET idx == next_indices(ld.pos, dataset_len(ld.dataset), ld.batch_size)
           batch == [k \in 1..Cardinality(idx) |->
                        dataset_getitem(ld.dataset, ld.pos + k)]
       IN  ld' = [ld EXCEPT !.batches = Append(@, batch),
                            !.pos = @ + Cardinality(idx)]
    /\ UNCHANGED <<runVars, trials>>

\* the loader's iterator is exhausted: the pass ends
EndOfPass ==
    /\ ld.phase = "iterating"
    /\ ~loader_has_next(ld.pos, dataset_len(ld.dataset), ld.batch_size)
    /\ ld' = [ld EXCEPT !.phase = "done"]
    /\ UNCHANGED <<runVars, trials>>

NextLoader ==
    \/ NextBatch
    \/ EndOfPass

SpecLoader == InitLoader /\ [][NextLoader]_vars

(* ------------------------------- claims -------------------------------- *)

RECURSIVE SumLen(_)
SumLen(bs) == IF bs = <<>> THEN 0 ELSE Len(Head(bs)) + SumLen(Tail(bs))

\* C10: for a dataset of S >= 1 samples and a batch size B >= 1, a finished
\* pass has yielded exactly ceil(S/B) batches; every batch but the last has B
\* samples, the last has S - B*(ceil(S/B) - 1) samples, between 1 and B, and
\* the batch sizes sum to S, S being what __len__ returns, the number of
\* feature rows.
C10_BatchCount ==
    ld.phase = "done" =>
        LET S == Len(ld.dataset.features)
            B == ld.batch_size
            n == CeilDiv(S, B)
            last == S - B * (n - 1)
        IN  /\ dataset_len(ld.dataset) = S
            /\ Len(ld.batches) = n
            /\ \A i \in 1..(n - 1) : Len(ld.batches[i]) = B
            /\ Len(ld.batches[n]) = last
            /\ last \in 1..B
            /\ SumLen(ld.batches) = S

\* a finished pass of several batches whose last batch is a short one
C10_Witness ==
    /\ ld.phase = "done"
    /\ Len(ld.batches) >= 2
    /\ Len(ld.batches[Len(ld.batches)]) < ld.batch_size

(* ---- the run of the script: claims the code contradicts ---- *)

\* tune_hyperparameters has been called
Called == config # NoneVal

\* the run is over: tune_hyperparameters returned, or an exception ended it
Ended == pc \in {"returned", "raised"}

\* the run is past the construction of the scheduler (lines 185-190)
PastScheduler == Called /\ pc \notin {"L184", "L185"}

\* C1: when tune_hyperparameters finishes, what it returns is the
\* configuration of the trial whose reported validation loss is the minimum
\* over the trials of the search: a best result exists and no trial's loss is
\* below its loss.
C1_ReturnsArgmin ==
    (Called /\ Ended) =>
        /\ pc = "returned"
        /\ best_result \in results
        /\ \A r \in results : best_result.loss <= r.loss

\* C2: every trial runs under a grace period of the swept set {5, 10, 15}:
\* past its construction the scheduler carries such a grace period, and no
\* trial is stopped early with fewer reported iterations than the grace
\* period of its configuration.
C2_GracePeriod ==
    PastScheduler =>
        /\ scheduler.kind = "ASHAScheduler"
        /\ scheduler.grace_period \in Range(GridGracePeriod)
        /\ \A t \in 1..NumTrials :
              trials[t].status = "stopped_early" =>
                  trials[t].epochs >= trials[t].config.grace_period

\* C4: a run of the entry point asks for 18 samples and 18 trials are
\* scheduled in all: when the call of tune_hyperparameters is over, the tuner
\* was built with num_samples = 18 and the search holds 18 trials.
C4_EighteenTrials ==
    (Called /\ Ended) =>
        /\ numSamples = MainNumSamples
        /\ tuner.kind = "Tuner"
        /\ tuner.num_samples = MainNumSamples
        /\ Cardinality(results) = MainNumSamples

\* C5: every trial is bounded by the schedule's maximum: past its
\* construction the scheduler carries max_t = 40, the largest swept value,
\* and no trial has run more iterations than 40 or than the max_t of its
\* configuration.
C5_MaxIterations ==
    PastScheduler =>
        /\ scheduler.kind = "ASHAScheduler"
        /\ scheduler.max_t = SeqMax(GridMaxT)
        /\ \A t \in 1..NumTrials :
              trials[t].status \in {"running", "completed", "stopped_early"} =>
                  /\ trials[t].epochs <= SeqMax(GridMaxT)
                  /\ trials[t].epochs <= trials[t].config.max_t

\* C6: once tune_hyperparameters is called, the search eventually
\* terminates and reports a best configuration (the script being scheduled
\* fairly).
C6_SearchTerminates ==
    Called ~> (pc = "returned" /\ best_result # NoneVal)

(* ---- the trainable: claims the code contradicts ---- *)

\* the trial's call of train_model_tune is past the checkpoint callback
PastCheckpointCallback(t) == trials[t].pc \notin {"L142", "L143", "L151"}

\* C3: a trial keeps at most 5 checkpoint files, the best by validation
\* loss: once a trial of a valid configuration is past the construction of
\* its checkpoint callback, the callback exists, keeps the top 5 and holds at
\* most 5 files.
C3_CheckpointRetention ==
    \A t \in 1..NumTrials :
        (ValidConfig(trials[t].config) /\ PastCheckpointCallback(t)) =>
            /\ trials[t].checkpoint_callback.kind = "ModelCheckpoint"
            /\ trials[t].checkpoint_callback.save_top_k = SaveTopK
            /\ Cardinality(trials[t].checkpoint_callback.kept) <= SaveTopK

\* C7: a trial whose configuration has an unknown optimizer, loss or
\* activation key fails with a lookup error (KeyError) before any training
\* step, and no other trial fails with it.
C7_UnknownKeyLookupError ==
    \A t \in 1..NumTrials :
        (~ValidConfig(trials[t].config) /\ trials[t].status = "failed") =>
            /\ trials[t].exc = "KeyError"
            /\ trials[t].epochs = 0

\* the steps of a trial's lifecycle
Lifecycle ==
    {<<"scheduled", "running">>, <<"running", "completed">>,
     <<"running", "stopped_early">>}

\* C8: each trial goes scheduled -> running -> completed | stopped-early,
\* and those two are absorbing; only a trial whose configuration has an
\* unknown key may leave running for failed.
C8_Lifecycle ==
    [][\A t \in 1..NumTrials :
          trials'[t].status # trials[t].status =>
              \/ <<trials[t].status, trials'[t].status>> \in Lifecycle
              \/ /\ ~ValidConfig(trials[t].config)
                 /\ <<trials[t].status, trials'[t].status>> = <<"running", "failed">>]_vars

====
